---- MODULE Spec2Model ----
(***************************************************************************)
(* State-machine model of the AgentForce Reliable Tool client              *)
(* (src/src/client.js, the version with logging and request ids, lines     *)
(* 383-1095): a process invocation, from main() to process.exit(), and a   *)
(* second invocation of request mode on the same input.                    *)
(***************************************************************************)
EXTENDS Integers, Sequences, FiniteSets, TLC

(***************************************************************************)
(* Bounds of the model.                                                    *)
(***************************************************************************)
\* the input stream is delivered in at most this many 'data' chunks
MaxChunks == 2

(***************************************************************************)
(* JavaScript / JSON values.                                               *)
(***************************************************************************)
Undefined == [t |-> "undefined"]
Null == [t |-> "null"]
Str(s) == [t |-> "string", s |-> s]
Num(n) == [t |-> "number", n |-> n]
Bool(b) == [t |-> "boolean", b |-> b]
Obj(f) == [t |-> "object", f |-> f]
Arr(e) == [t |-> "array", e |-> e]
EmptyMap == [k \in {} |-> Undefined]

\* an exception in flight, with its message
Throw(m) == [t |-> "throw", s |-> m]
IsThrow(v) == v.t = "throw"

\* ToBoolean: the falsy values are undefined, null, false, 0 and ""
Truthy(v) ==
  CASE v.t = "undefined" -> FALSE
    [] v.t = "null" -> FALSE
    [] v.t = "boolean" -> v.b
    [] v.t = "number" -> v.n # 0
    [] v.t = "string" -> v.s # ""
    [] OTHER -> TRUE

\* property read v.k: a TypeError on undefined and null, undefined when the
\* member is absent
Get(v, k) ==
  CASE v.t = "undefined" ->
         Throw("Cannot read properties of undefined (reading '" \o k \o "')")
    [] v.t = "null" ->
         Throw("Cannot read properties of null (reading '" \o k \o "')")
    [] v.t = "object" -> IF k \in DOMAIN v.f THEN v.f[k] ELSE Undefined
    [] v.t = "string" /\ k = "length" -> Num(Len(v.s))
    [] v.t = "array" /\ k = "length" -> Num(Len(v.e))
    [] OTHER -> Undefined

\* element read v[i] (0-based), same failure rule as a property read
At(v, i) ==
  CASE v.t = "undefined" ->
         Throw("Cannot read properties of undefined (reading '0')")
    [] v.t = "null" ->
         Throw("Cannot read properties of null (reading '0')")
    [] v.t = "array" -> IF i + 1 \in DOMAIN v.e THEN v.e[i + 1] ELSE Undefined
    [] OTHER -> Undefined

\* a chain of reads: the first failing read decides
GetIn(v, k) == IF IsThrow(v) THEN v ELSE Get(v, k)
AtIn(v, i) == IF IsThrow(v) THEN v ELSE At(v, i)

\* template-literal rendering of a value
ToText(v) ==
  CASE v.t = "string" -> v.s
    [] v.t = "undefined" -> "undefined"
    [] v.t = "null" -> "null"
    [] OTHER -> "[value]"

\* The document that JSON.stringify(v) denotes: members whose value is
\* undefined are left out, an undefined array element becomes null.
RECURSIVE JSONstringify(_)
JSONstringify(v) ==
  CASE v.t = "object" ->
         LET keep == {k \in DOMAIN v.f : v.f[k].t # "undefined"}
         IN  Obj([k \in keep |-> JSONstringify(v.f[k])])
    [] v.t = "array" ->
         Arr([i \in DOMAIN v.e |->
                IF v.e[i].t = "undefined" THEN Null ELSE JSONstringify(v.e[i])])
    [] OTHER -> v

(***************************************************************************)
(* The input stream.  A document is a sequence of text pieces together     *)
(* with what JSON.parse makes of their concatenation; the environment      *)
(* delivers the pieces grouped into chunks.                                *)
(***************************************************************************)
RECURSIVE Concat(_)
Concat(ps) == IF ps = <<>> THEN "" ELSE Head(ps) \o Concat(Tail(ps))

SyntaxError == Throw("Unexpected end of JSON input")

Request(name, args) == Obj([tool |-> Obj([name |-> Str(name), args |-> args])])

ToolDoc(name, argsText, args) ==
  [pieces |-> << "{\"tool\":{\"name\":\"" \o name \o "\",",
                 "\"args\":" \o argsText,
                 "}}" >>,
   value |-> Request(name, args)]

ArgsC1 == Obj([clientId |-> Str("c1")])
ArgsMsg == Obj([clientId |-> Str("c1"), message |-> Str("hi")])
ArgsCfg == Obj([clientId |-> Str("c1"), config |-> Obj([agentId |-> Str("a1")])])
ArgsNone == Obj(EmptyMap)

Docs ==
  { ToolDoc("agentforce_get_status", "{\"clientId\":\"c1\"}", ArgsC1),
    ToolDoc("agentforce_get_status", "7", Num(7)),
    ToolDoc("agentforce_get_status", "null", Null),
    ToolDoc("agentforce_reset", "{}", ArgsNone),
    ToolDoc("agentforce_create_session", "{\"clientId\":\"c1\"}", ArgsC1),
    ToolDoc("agentforce_send_message",
            "{\"clientId\":\"c1\",\"message\":\"hi\"}", ArgsMsg),
    ToolDoc("agentforce_send_message", "{\"clientId\":\"c1\"}", ArgsC1),
    ToolDoc("agentforce_authenticate",
            "{\"clientId\":\"c1\",\"config\":{\"agentId\":\"a1\"}}", ArgsCfg),
    ToolDoc("agentforce_authenticate", "{}", ArgsNone),
    ToolDoc("bogus_tool", "{}", ArgsNone),
    ToolDoc("AGENTFORCE_RESET", "{}", ArgsNone),
    [pieces |-> << "{\"tool\":{\"name\":", "\"agentforce_get_status\"", "}}" >>,
     value |-> Obj([tool |-> Obj([name |-> Str("agentforce_get_status")])])],
    [pieces |-> << "{\"tool\":{\"name\":", "\"bogus_tool\"", "}}" >>,
     value |-> Obj([tool |-> Obj([name |-> Str("bogus_tool")])])],
    [pieces |-> << "{\"tool\":{", "\"args\":{}", "}}" >>,
     value |-> Obj([tool |-> Obj([args |-> ArgsNone])])],
    [pieces |-> << "{\"tool\":", "\"x\"", "}" >>,
     value |-> Obj([tool |-> Str("x")])],
    [pieces |-> << "{", "}" >>, value |-> Obj(EmptyMap)],
    [pieces |-> << "nu", "ll" >>, value |-> Null],
    [pieces |-> << "4", "2" >>, value |-> Num(42)],
    [pieces |-> << "ab", "c" >>,
     value |-> Throw("Unexpected token a in JSON at position 0")],
    [pieces |-> << "{\"tool\":", "{\"name\":" >>, value |-> SyntaxError],
    [pieces |-> << " ", "\n" >>, value |-> SyntaxError],
    [pieces |-> <<>>, value |-> SyntaxError] }

\* JSON.parse: the value of a complete document, a SyntaxError otherwise
JSONparse(text) ==
  IF \E d \in Docs : Concat(d.pieces) = text
  THEN (CHOOSE d \in Docs : Concat(d.pieces) = text).value
  ELSE SyntaxError

\* !text: the emptiness test without trim()
IsBlank_noTrim(text) == text = ""

\* !text.trim(): the text is empty or made of white space only
Blank == {"", " ", "\n", " \n", "\n "}
IsBlank(text) == text \in Blank

\* the pieces ps grouped into chunks, cut after the positions in cuts
RECURSIVE ChunksFrom(_, _, _)
ChunksFrom(ps, cuts, i) ==
  IF i > Len(ps) THEN <<>>
  ELSE LET rest == ChunksFrom(ps, cuts, i + 1)
       IN  IF i = Len(ps) \/ i \in cuts
           THEN <<ps[i]>> \o rest
           ELSE <<ps[i] \o Head(rest)>> \o Tail(rest)

Chunkings(ps) ==
  { ChunksFrom(ps, cuts, 1) :
      cuts \in {c \in SUBSET (1 .. (Len(ps) - 1)) : Cardinality(c) < MaxChunks} }

(***************************************************************************)
(* The configuration store (CONFIG_DIR, CONFIG_PATH).                      *)
(***************************************************************************)
FileAbsent == [t |-> "absent"]
FileJSON(v) == [t |-> "json", v |-> v]
FileGarbage == [t |-> "garbage"]
FileUnreadable == [t |-> "unreadable"]

StoredProfile ==
  Obj([serverUrl |-> Str("http://srv:3000"), apiKey |-> Str("k1"),
       clientId |-> Str("client-1")])

\* a stored profile written by hand, without a serverUrl
PartialProfile ==
  Obj([apiKey |-> Str("k1"), clientId |-> Str("client-1")])

DEFAULT_CONFIG ==
  Obj([serverUrl |-> Str("http://localhost:3000"), apiKey |-> Str(""),
       clientId |-> Str("client-<now>")])

(***************************************************************************)
(* Console and standard output.  io is the process's output in order; an  *)
(* entry names the stream it went to.                                      *)
(***************************************************************************)
Log(text) == [ch |-> "stdout", via |-> "console.log", text |-> text,
              doc |-> Undefined]
Err(text) == [ch |-> "stderr", via |-> "console.error", text |-> text,
              doc |-> Undefined]
Write(doc) == [ch |-> "stdout", via |-> "process.stdout.write", text |-> "",
               doc |-> JSONstringify(doc)]
\* the end of the process, by process.exit(code) or otherwise
Ended(how, code) == [ch |-> "exit", via |-> how,
                     text |-> IF code = 0 THEN "0" ELSE "1", doc |-> Undefined]
ProcessExit(code) == Ended("process.exit", code)

VARIABLES
  pc,          \* position of the process: "start", "reading", "awaiting",
               \* "exited", and the wizard's positions
  argv,        \* the command-line arguments after the script name
  stdin,       \* chunks of the input stream not yet delivered
  inputData,   \* processStdinRequest's accumulator
  io,          \* everything written to the console and to standard output
  exit,        \* <<>> while running, <<code>> once process.exit(code) ran
  logging,     \* setupLogging replaced the console methods
  logsDirOk,   \* the logs directory exists or can be created
  configDir,   \* CONFIG_DIR exists
  dirCreatable,\* mkdirSync(CONFIG_DIR) succeeds
  fileWritable,\* writeFileSync(CONFIG_PATH) succeeds
  configFile,  \* the content of CONFIG_PATH
  config,      \* configureClient's local profile
  saves,       \* number of writes of CONFIG_PATH
  calls,       \* outbound HTTP calls issued, in order
  entered,     \* operation functions entered, in order
  op,          \* the operation whose call is in flight
  earlier      \* what the previous invocation of the client did, if any

vars == << pc, argv, stdin, inputData, io, exit, logging, logsDirOk,
           configDir, dirCreatable, fileWritable, configFile, config, saves,
           calls, entered, op, earlier >>

\* what a user types at the wizard's prompts before the input closes
Answers == {"", "http://new:4000", "k2"}
AnswerLines ==
  {<<>>} \cup {<<a>> : a \in Answers} \cup {<<a, b>> : a, b \in Answers}

NoOutcome == [kind |-> "none", status |-> 0, data |-> Undefined]
NoOp == [name |-> "", state |-> "none", result |-> Undefined,
         outcome |-> NoOutcome]

\* no invocation came before this one
NoRun == [done |-> FALSE, calls |-> <<>>, docs |-> <<>>, exit |-> <<>>,
          outcome |-> NoOutcome]

Init ==
  /\ pc = "start"
  /\ argv \in {<<>>, <<"configure">>, <<"-v", "configure">>}
  /\ IF argv = <<>>
     THEN \E d \in Docs : stdin \in Chunkings(d.pieces)
     ELSE stdin \in AnswerLines
  /\ inputData = ""
  /\ io = <<>>
  /\ exit = <<>>
  /\ logging = FALSE
  /\ logsDirOk \in BOOLEAN
  /\ configDir \in BOOLEAN
  /\ dirCreatable \in BOOLEAN
  /\ fileWritable \in BOOLEAN
  /\ config = Undefined
  /\ configFile \in IF configDir
                    THEN {FileAbsent, FileJSON(StoredProfile),
                          FileJSON(PartialProfile), FileJSON(Null),
                          FileGarbage, FileUnreadable}
                    ELSE {FileAbsent}
  /\ saves = 0
  /\ calls = <<>>
  /\ entered = <<>>
  /\ op = NoOp
  /\ earlier = NoRun

(***************************************************************************)
(* Number rendering inside messages.                                       *)
(***************************************************************************)
Digits == << "0", "1", "2", "3", "4", "5", "6", "7", "8", "9" >>
RECURSIVE Dec(_)
Dec(n) == IF n < 10 THEN Digits[n + 1]
          ELSE Dec(n \div 10) \o Digits[(n % 10) + 1]

(***************************************************************************)
(* loadConfig.  The result carries the returned profile (or the exception  *)
(* that left the function), the console output and whether CONFIG_DIR      *)
(* exists afterwards.                                                      *)
(***************************************************************************)
ensureConfigDir ==
  IF configDir THEN [val |-> Undefined, ev |-> <<>>, dir |-> TRUE]
  ELSE IF dirCreatable
       THEN [val |-> Undefined, ev |-> <<Log("Created config directory")>>,
             dir |-> TRUE]
       ELSE [val |-> Throw("EACCES: permission denied, mkdir"), ev |-> <<>>,
             dir |-> FALSE]

loadConfigIn(d) ==
  IF IsThrow(d.val) THEN d
  ELSE CASE configFile.t = "json" ->
              [val |-> configFile.v,
               ev |-> d.ev \o <<Log("Successfully loaded configuration")>>,
               dir |-> d.dir]
         [] configFile.t = "garbage" ->
              [val |-> DEFAULT_CONFIG,
               ev |-> d.ev \o <<Err("Error parsing configuration:"),
                                Err("Raw config data:"),
                                Log("Using default configuration instead")>>,
               dir |-> d.dir]
         [] configFile.t = "unreadable" ->
              [val |-> DEFAULT_CONFIG,
               ev |-> d.ev \o <<Err("Error loading config:")>>,
               dir |-> d.dir]
         [] OTHER ->
              [val |-> DEFAULT_CONFIG,
               ev |-> d.ev \o
                      <<Log("No configuration file found, using defaults")>>,
               dir |-> d.dir]

loadConfig == loadConfigIn(ensureConfigDir)

(***************************************************************************)
(* The five operation functions.                                           *)
(***************************************************************************)
Registry == { "agentforce_authenticate", "agentforce_create_session",
              "agentforce_send_message", "agentforce_get_status",
              "agentforce_reset" }

Descriptor(name) ==
  CASE name = "agentforce_authenticate" ->
         [intro |-> "Authenticating with AgentForce",
          label |-> "Authentication", code |-> "authentication_error",
          timeout |-> 30000, done |-> "Authentication successful"]
    [] name = "agentforce_create_session" ->
         [intro |-> "Creating AgentForce session",
          label |-> "Session creation", code |-> "session_creation_error",
          timeout |-> 60000, done |-> "Session creation successful"]
    [] name = "agentforce_send_message" ->
         [intro |-> "Sending message to AgentForce",
          label |-> "Message sending", code |-> "message_sending_error",
          timeout |-> 300000, done |-> "Message sending successful, took <n>ms"]
    [] name = "agentforce_get_status" ->
         [intro |-> "Getting AgentForce status",
          label |-> "Status check", code |-> "status_check_error",
          timeout |-> 10000, done |-> "Status check successful"]
    [] name = "agentforce_reset" ->
         [intro |-> "Resetting AgentForce client",
          label |-> "Reset", code |-> "reset_error",
          timeout |-> 10000, done |-> "Reset successful"]

\* the statements before `try`: what they log, or the exception they raise
PrologueOf(name, clientId, head, agentId, msgLen) ==
  IF IsThrow(clientId)
  THEN [val |-> clientId, ev |-> << Log(Descriptor(name).intro) >>]
  ELSE CASE name = "agentforce_authenticate" ->
             IF IsThrow(agentId) THEN [val |-> agentId, ev |-> head]
             ELSE [val |-> Undefined,
                   ev |-> Append(head, Log("Agent ID: " \o ToText(agentId)))]
        [] name = "agentforce_send_message" ->
             IF IsThrow(msgLen) THEN [val |-> msgLen, ev |-> head]
             ELSE [val |-> Undefined,
                   ev |-> Append(head, Log("Message length: <n> characters"))]
        [] OTHER -> [val |-> Undefined, ev |-> head]

Prologue(name, args) ==
  PrologueOf(name, Get(args, "clientId"),
             << Log(Descriptor(name).intro),
                Log("Client ID: " \o ToText(Get(args, "clientId"))) >>,
             GetIn(Get(args, "config"), "agentId"),
             GetIn(Get(args, "message"), "length"))

\* a catch block that returns the bare message under a shared code
Failure_unlabelled(name, m) ==
  Obj([content |-> Arr(<< Obj([type |-> Str("text"), text |-> Str(m)]) >>),
       error |-> Obj([code |-> Str("processing_error"),
                      message |-> Str(m)])])

\* the value an operation returns from its catch block
Failure(name, m) ==
  Obj([content |-> Arr(<< Obj([type |-> Str("text"),
                               text |-> Str(Descriptor(name).label
                                            \o " failed: " \o m)]) >>),
       error |-> Obj([code |-> Str(Descriptor(name).code),
                      message |-> Str(m)])])

\* the catch block's console output; detail is the branch of the
\* axios.isAxiosError test that applies ("none" for a non-axios error)
CatchLog(name, detail) ==
  << Err(Descriptor(name).label \o " error:") >> \o
  CASE detail = "response" -> << Err("Response status:"), Err("Response data:") >>
    [] detail = "request" -> << Err("No response received from server") >>
    [] detail = "setup" -> << Err("Error setting up request:") >>
    [] OTHER -> <<>>

\* the older client's call: args merged with the profile's clientId
Post_merged(name, args, cfg) ==
  [method |-> "POST",
   url |-> ToText(Get(cfg, "serverUrl")) \o "/mcp/call-tool",
   body |-> Obj([tool |-> Obj([name |-> Str(name),
                               args |-> Obj([clientId |->
                                               Get(cfg, "clientId")])])]),
   apiKey |-> Get(cfg, "apiKey"),
   requestId |-> "<uuid>",
   contentType |-> "application/json",
   timeout |-> Descriptor(name).timeout]

\* the outbound call: axios.post(url, body, { headers, timeout })
Post(name, args, cfg) ==
  [method |-> "POST",
   url |-> ToText(Get(cfg, "serverUrl")) \o "/mcp/call-tool",
   body |-> Obj([tool |-> Obj([name |-> Str(name), args |-> args])]),
   apiKey |-> Get(cfg, "apiKey"),
   requestId |-> "<uuid>",
   contentType |-> "application/json",
   timeout |-> Descriptor(name).timeout]

\* An operation from its entry to the point where it first suspends or
\* returns.  st is "threw" (an exception left the function), "returned"
\* (the catch block returned without a call) or "called" (axios.post is
\* in flight).
EnterWith(name, args, pro, lc, url) ==
      IF IsThrow(pro.val)
      THEN [st |-> "threw", name |-> name, val |-> pro.val, ev |-> pro.ev,
            dir |-> configDir, call |-> <<>>]
      ELSE IF IsThrow(lc.val)
      THEN [st |-> "returned", name |-> name, val |-> Failure(name, lc.val.s),
            ev |-> pro.ev \o lc.ev \o CatchLog(name, "none"), dir |-> lc.dir,
            call |-> <<>>]
      ELSE IF IsThrow(url)
      THEN [st |-> "returned", name |-> name, val |-> Failure(name, url.s),
            ev |-> pro.ev \o lc.ev \o CatchLog(name, "none"), dir |-> lc.dir,
            call |-> <<>>]
      ELSE [st |-> "called", name |-> name, val |-> Undefined,
            ev |-> pro.ev \o lc.ev \o
                   << Log("Making request to: " \o ToText(url)
                          \o "/mcp/call-tool"),
                      Log("Request ID: <uuid>") >>,
            dir |-> lc.dir,
            call |-> << Post(name, args, lc.val) >>]

TryCall(name, args, pro, lc) ==
  EnterWith(name, args, pro, lc, Get(lc.val, "serverUrl"))

\* an operation that answers a repeated request from what the previous
\* invocation obtained, without a call of its own
Enter_cached(name, args) ==
  IF earlier.done /\ earlier.calls # <<>>
  THEN [st |-> "returned", name |-> name, val |-> Undefined, ev |-> <<>>,
        dir |-> configDir, call |-> <<>>]
  ELSE CHOOSE e \in { TryCall(name, args, pro, lc) :
                        pro \in {Prologue(name, args)},
                        lc \in {loadConfig} } : TRUE

Enter(name, args) ==
  CHOOSE e \in { TryCall(name, args, pro, lc) :
                   pro \in {Prologue(name, args)}, lc \in {loadConfig} } : TRUE

authenticateWithAgentForce(args) == Enter("agentforce_authenticate", args)
createAgentForceSession(args) == Enter("agentforce_create_session", args)
sendMessageToAgentForce(args) == Enter("agentforce_send_message", args)
getAgentForceStatus(args) == Enter("agentforce_get_status", args)
resetAgentForceClient(args) == Enter("agentforce_reset", args)

(***************************************************************************)
(* How the outbound call settles.                                          *)
(***************************************************************************)
TextEntry(s) == Obj([type |-> Str("text"), text |-> Str(s)])
OkResult == Obj([content |-> Arr(<<TextEntry("ok")>>)])

Bodies ==
  { Obj([result |-> OkResult]),
    Obj([result |-> Obj([content |-> Arr(<<TextEntry("idle")>>)])]),
    Obj([result |-> Obj([content |-> Arr(<<TextEntry("denied")>>),
                         error |-> Obj([code |-> Str("backend_error"),
                                        message |-> Str("denied")])])]),
    Obj([result |-> Obj([status |-> Str("ok")])]),
    Obj([result |-> Obj([content |-> Arr(<<>>)])]),
    Obj(EmptyMap),
    Str(""),
    Null }

Outcomes ==
  { [kind |-> "response", status |-> 200, data |-> b] : b \in Bodies } \cup
  { [kind |-> "response", status |-> s, data |-> Obj(EmptyMap)] :
      s \in {401, 500} } \cup
  { [kind |-> "refused", status |-> 0, data |-> Undefined],
    [kind |-> "timeout", status |-> 0, data |-> Undefined] }

\* axios resolves the promise for a 2xx status and rejects it otherwise
Resolves(o) == o.kind = "response" /\ o.status >= 200 /\ o.status < 300

\* error.message of the rejection
AxiosMessage(name, o) ==
  CASE o.kind = "response" ->
         "Request failed with status code " \o Dec(o.status)
    [] o.kind = "timeout" ->
         "timeout of " \o Dec(Descriptor(name).timeout) \o "ms exceeded"
    [] OTHER -> "connect ECONNREFUSED"

\* An operation from the settlement of its call to its return: the
\* returned value, whether the try block returned it (ok) or the catch
\* block, and the console output.
ResumeWith(name, o, result, len, done) ==
      IF ~Resolves(o)
      THEN [ok |-> FALSE, val |-> Failure(name, AxiosMessage(name, o)),
            ev |-> CatchLog(name, IF o.kind = "response" THEN "response"
                                  ELSE "request")]
      ELSE IF name = "agentforce_send_message"
      THEN IF IsThrow(len)
           THEN [ok |-> FALSE, val |-> Failure(name, len.s),
                 ev |-> done \o CatchLog(name, "none")]
           ELSE [ok |-> TRUE, val |-> result,
                 ev |-> done \o << Log("Response length: <n> characters") >>]
      ELSE IF IsThrow(result)
           THEN [ok |-> FALSE, val |-> Failure(name, result.s),
                 ev |-> done \o CatchLog(name, "none")]
           ELSE [ok |-> TRUE, val |-> result, ev |-> done]

Resume(name, o) ==
  ResumeWith(name, o, GetIn(o.data, "result"),
             GetIn(GetIn(AtIn(GetIn(GetIn(o.data, "result"), "content"), 0),
                         "text"), "length"),
             << Log(Descriptor(name).done) >>)

(***************************************************************************)
(* processStdinRequest: the 'end' handler.                                 *)
(***************************************************************************)
ErrorEnvelope(text, code, message) ==
  Obj([result |-> Obj([content |-> Arr(<<TextEntry(text)>>),
                       error |-> Obj([code |-> Str(code),
                                      message |-> Str(message)])])])

\* the handler ends in process.exit(code); ev is its output, the exit last
Exit(ev, code) ==
  [st |-> "exit", ev |-> ev, code |-> code, name |-> "", val |-> Undefined,
   dir |-> configDir, call |-> <<>>, entered |-> <<>>]

\* the tail of the handler once the operation has returned result
Finish(result) ==
  << Log("Sending response"), Write(Obj([result |-> result])),
     ProcessExit(0) >>

\* a catch block that logs the exception and exits without an envelope
Fault_nowrite(m) ==
  << Err("Error processing request:"), Err("Stack trace:"), ProcessExit(1) >>

\* a catch block that reports the exception under the outer catch's code
Fault_stdin(m) ==
  << Err("Error processing request:"), Err("Stack trace:"),
     Write(ErrorEnvelope("Error: " \o m, "stdin_error", m)),
     ProcessExit(1) >>

\* the handler's catch block for an exception with message m
Fault(m) ==
  << Err("Error processing request:"), Err("Stack trace:"),
     Write(ErrorEnvelope("Error: " \o m, "processing_error", m)),
     ProcessExit(1) >>

\* a tool check that tests only the member of an object: !request.tool
\* without the !request guard
MissingTool_noNullGuard(request) ==
  request.t = "object" /\ ~Truthy(Get(request, "tool"))

\* !request || !request.tool
MissingTool(request) ==
  ~Truthy(request) \/ ~Truthy(Get(request, "tool"))

\* a handler without the args check
MissingArgs_off(args) == FALSE

\* !args
MissingArgs(args) == ~Truthy(args)

\* a switch that also matches an operation name written in upper case
Dispatch_anyCase(name, args) ==
  CASE name = Str("agentforce_authenticate") -> authenticateWithAgentForce(args)
    [] name = Str("agentforce_create_session") -> createAgentForceSession(args)
    [] name = Str("agentforce_send_message") -> sendMessageToAgentForce(args)
    [] name = Str("agentforce_get_status") -> getAgentForceStatus(args)
    [] name \in {Str("agentforce_reset"), Str("AGENTFORCE_RESET")} ->
         resetAgentForceClient(args)
    [] OTHER -> [st |-> "default"]

\* the switch on name: the operation function run, if any
Dispatch(name, args) ==
  CASE name = Str("agentforce_authenticate") -> authenticateWithAgentForce(args)
    [] name = Str("agentforce_create_session") -> createAgentForceSession(args)
    [] name = Str("agentforce_send_message") -> sendMessageToAgentForce(args)
    [] name = Str("agentforce_get_status") -> getAgentForceStatus(args)
    [] name = Str("agentforce_reset") -> resetAgentForceClient(args)
    [] OTHER -> [st |-> "default"]

\* after the switch: d is what the operation function did
Dispatched(name, called, d) ==
  IF d.st = "default"
  THEN Exit(called \o
            << Err("Error: Unknown tool: " \o ToText(name)),
               Write(ErrorEnvelope("Error: Unknown tool: " \o ToText(name),
                                   "unknown_tool",
                                   "Unknown tool: " \o ToText(name))),
               ProcessExit(1) >>, 1)
  ELSE IF d.st = "threw"
  THEN [Exit(called \o d.ev \o Fault(d.val.s), 1)
          EXCEPT !.name = d.name, !.entered = <<d.name>>, !.val = d.val]
  ELSE IF d.st = "returned"
  THEN [Exit(called \o d.ev \o Finish(d.val), 0)
          EXCEPT !.name = d.name, !.entered = <<d.name>>, !.val = d.val,
                 !.dir = d.dir]
  ELSE [st |-> "await", ev |-> called \o d.ev, code |-> 0,
        name |-> d.name, val |-> Undefined, dir |-> d.dir,
        call |-> d.call, entered |-> <<d.name>>]

\* a handler that runs the switch's name test ahead of the args check
Destructured_nameFirst(name, args, called) ==
  IF ~(name.t = "string" /\ name.s \in Registry)
  THEN Dispatched(name, called, [st |-> "default"])
  ELSE IF MissingArgs(args)
  THEN Exit(called \o
            << Err("Error: Invalid request format - missing args field"),
               Write(ErrorEnvelope(
                       "Error: Invalid request format - missing args field",
                       "invalid_request", "Missing args field")),
               ProcessExit(1) >>, 1)
  ELSE CHOOSE h \in
         { Dispatched(name, called, d) : d \in {Dispatch(name, args)} } : TRUE

\* const { name, args } = request.tool, the args check and the switch
Destructured(name, args, called) ==
  IF MissingArgs(args)
  THEN Exit(called \o
            << Err("Error: Invalid request format - missing args field"),
               Write(ErrorEnvelope(
                       "Error: Invalid request format - missing args field",
                       "invalid_request", "Missing args field")),
               ProcessExit(1) >>, 1)
  ELSE CHOOSE h \in
         { Dispatched(name, called, d) : d \in {Dispatch(name, args)} } : TRUE

\* a handler without the try/catch around JSON.parse: the SyntaxError
\* reaches the handler's own catch block
Parsed_noInnerCatch(request, received) ==
  IF IsThrow(request)
  THEN Exit(received \o Fault(request.s), 1)
  ELSE IF MissingTool(request)
  THEN Exit(received \o
            << Err("Error: Invalid request format - missing tool field"),
               Write(ErrorEnvelope(
                       "Error: Invalid request format - missing tool field",
                       "invalid_request", "Missing tool field")),
               ProcessExit(1) >>, 1)
  ELSE CHOOSE h \in
         { Destructured(Get(tool, "name"), Get(tool, "args"),
                        received \o
                        << Log("Tool called: "
                               \o ToText(Get(tool, "name"))) >>) :
             tool \in {Get(request, "tool")} } : TRUE

\* the handler once JSON.parse has produced request or raised it
Parsed(request, received) ==
  IF IsThrow(request)
  THEN Exit(received \o
            << Err("Error parsing input JSON:"),
               Write(ErrorEnvelope("Error: Failed to parse input - "
                                     \o request.s,
                                   "parse_error", request.s)),
               ProcessExit(1) >>, 1)
  ELSE IF MissingTool(request)
  THEN Exit(received \o
            << Err("Error: Invalid request format - missing tool field"),
               Write(ErrorEnvelope(
                       "Error: Invalid request format - missing tool field",
                       "invalid_request", "Missing tool field")),
               ProcessExit(1) >>, 1)
  ELSE CHOOSE h \in
         { Destructured(Get(tool, "name"), Get(tool, "args"),
                        received \o
                        << Log("Tool called: "
                               \o ToText(Get(tool, "name"))) >>) :
             tool \in {Get(request, "tool")} } : TRUE

\* a handler that leaves with process.exit(0) when nothing was received
EndHandler_exit0 ==
  IF IsBlank(inputData)
  THEN Exit(<< Err("Error: No input received"), ProcessExit(0) >>, 0)
  ELSE CHOOSE h \in
         { Parsed(request, << Log("Received input: " \o Dec(Len(inputData))
                                  \o " characters") >>) :
             request \in {JSONparse(inputData)} } : TRUE

\* The handler from the 'end' event to its first suspension or to
\* process.exit.
EndHandler ==
  IF IsBlank(inputData)
  THEN Exit(<< Err("Error: No input received"), ProcessExit(1) >>, 1)
  ELSE CHOOSE h \in
         { Parsed(request, << Log("Received input: " \o Dec(Len(inputData))
                                  \o " characters") >>) :
             request \in {JSONparse(inputData)} } : TRUE

(***************************************************************************)
(* setupLogging and main.                                                  *)
(***************************************************************************)
setupLogging ==
  IF logsDirOk
  THEN [val |-> TRUE, ev |-> << Log("Logging initialized to <LOG_PATH>") >>]
  ELSE [val |-> FALSE, ev |-> << Err("Error setting up logging:") >>]

\* a main() that goes on to processStdinRequest whatever the arguments are
Main_anyArgs ==
  /\ pc = "start"
  /\ logging' = setupLogging.val
  /\ io' = io \o setupLogging.ev
  /\ pc' = "reading"
  /\ UNCHANGED << argv, earlier, stdin, inputData, exit, logsDirOk, configDir,
                  dirCreatable, fileWritable, configFile, config, saves, calls,
                  entered, op >>

\* main() in request mode: setupLogging, then processStdinRequest
\* registers the 'data' and 'end' listeners
Main ==
  /\ pc = "start"
  /\ "configure" \notin {argv[i] : i \in DOMAIN argv}
  /\ logging' = setupLogging.val
  /\ io' = io \o setupLogging.ev
  /\ pc' = "reading"
  /\ UNCHANGED << argv, earlier, stdin, inputData, exit, logsDirOk, configDir,
                  dirCreatable, fileWritable, configFile, config, saves, calls,
                  entered, op >>

\* a 'data' listener that puts each chunk in front of what it holds
OnData_prepend ==
  /\ pc = "reading"
  /\ stdin # <<>>
  /\ inputData' = Head(stdin) \o inputData
  /\ stdin' = Tail(stdin)
  /\ UNCHANGED << pc, argv, earlier, io, exit, logging, logsDirOk, configDir,
                  dirCreatable, fileWritable, configFile, config, saves, calls,
                  entered, op >>

\* the 'data' listener
OnData ==
  /\ pc = "reading"
  /\ stdin # <<>>
  /\ inputData' = inputData \o Head(stdin)
  /\ stdin' = Tail(stdin)
  /\ UNCHANGED << pc, argv, earlier, io, exit, logging, logsDirOk, configDir,
                  dirCreatable, fileWritable, configFile, config, saves, calls,
                  entered, op >>

\* the 'end' listener, up to process.exit or to the await of the call
Handled(h) ==
  /\ io' = io \o h.ev
  /\ configDir' = h.dir
  /\ calls' = calls \o h.call
  /\ entered' = entered \o h.entered
  /\ IF h.st = "exit"
     THEN /\ pc' = "exited"
          /\ exit' = << h.code >>
          /\ op' = IF h.entered = <<>> THEN op
                   ELSE [name |-> h.name,
                         state |-> IF IsThrow(h.val) THEN "threw"
                                   ELSE "failed",
                         result |-> h.val, outcome |-> NoOutcome]
     ELSE /\ pc' = "awaiting"
          /\ exit' = exit
          /\ op' = [name |-> h.name, state |-> "pending",
                    result |-> Undefined, outcome |-> NoOutcome]

OnEnd ==
  /\ pc = "reading"
  /\ stdin = <<>>
  /\ \E h \in {EndHandler} : Handled(h)
  /\ UNCHANGED << argv, earlier, stdin, inputData, logging, logsDirOk, dirCreatable,
                  fileWritable, configFile, config, saves >>

\* the outbound call settles with outcome o; the operation returns and the
\* handler writes its result and exits
Returned(o, r) ==
  /\ io' = io \o r.ev \o Finish(r.val)
  /\ op' = [op EXCEPT !.state = IF r.ok THEN "succeeded" ELSE "failed",
                      !.result = r.val, !.outcome = o]

\* a settlement that issues the call again after a rejection
Settle_retry(o) ==
  /\ pc = "awaiting"
  /\ IF ~Resolves(o) /\ Len(calls) < 2
     THEN /\ calls' = Append(calls, calls[Len(calls)])
          /\ UNCHANGED << pc, io, exit, op >>
     ELSE /\ \E r \in {Resume(op.name, o)} : Returned(o, r)
          /\ exit' = << 0 >>
          /\ pc' = "exited"
          /\ calls' = calls
  /\ UNCHANGED << argv, earlier, stdin, inputData, logging, logsDirOk, configDir,
                  dirCreatable, fileWritable, configFile, config, saves,
                  entered >>

Settle(o) ==
  /\ pc = "awaiting"
  /\ \E r \in {Resume(op.name, o)} : Returned(o, r)
  /\ exit' = << 0 >>
  /\ pc' = "exited"
  /\ UNCHANGED << argv, earlier, stdin, inputData, logging, logsDirOk, configDir,
                  dirCreatable, fileWritable, configFile, config, saves,
                  calls, entered >>

(***************************************************************************)
(* configureClient: the configuration wizard.                              *)
(***************************************************************************)
Ask(question) == [ch |-> "stdout", via |-> "rl.question", text |-> question,
                  doc |-> Undefined]
Uncaught(m) == [ch |-> "stderr", via |-> "node", text |-> m, doc |-> Undefined]

SetField(obj, k, v) ==
  Obj([x \in DOMAIN obj.f \cup {k} |-> IF x = k THEN v ELSE obj.f[x]])

Banner ==
  << Log("AgentForce Reliable Tool Configuration"), Log("") >>

\* the connectivity probe: axios.get(config.serverUrl, { headers, timeout })
Probe(cfg) ==
  [method |-> "GET",
   url |-> ToText(Get(cfg, "serverUrl")),
   body |-> Undefined,
   apiKey |-> Get(cfg, "apiKey"),
   requestId |-> "<uuid>",
   contentType |-> "",
   timeout |-> 5000]

\* the wizard from its entry to the first prompt; lc is what loadConfig did
Opened(lc) ==
  /\ configDir' = lc.dir
  /\ IF IsThrow(lc.val)
     THEN /\ io' = io \o setupLogging.ev \o Banner \o lc.ev
                     \o << Uncaught(lc.val.s), Ended("uncaught", 1) >>
          /\ exit' = << 1 >>
          /\ pc' = "exited"
          /\ config' = config
     ELSE IF IsThrow(Get(lc.val, "serverUrl"))
     THEN /\ io' = io \o setupLogging.ev \o Banner \o lc.ev
                     \o << Log("Enter your server connection details:"),
                           Log("(Press Enter to keep existing values in brackets)"),
                           Log(""),
                           Uncaught(Get(lc.val, "serverUrl").s),
                           Ended("uncaught", 1) >>
          /\ exit' = << 1 >>
          /\ pc' = "exited"
          /\ config' = config
     ELSE /\ io' = io \o setupLogging.ev \o Banner \o lc.ev
                     \o << Log("Enter your server connection details:"),
                           Log("(Press Enter to keep existing values in brackets)"),
                           Log(""),
                           Ask("Server URL: ") >>
          /\ exit' = exit
          /\ pc' = "promptUrl"
          /\ config' = lc.val

\* main() in configure mode: setupLogging, then configureClient up to the
\* first prompt
Configure ==
  /\ pc = "start"
  /\ "configure" \in {argv[i] : i \in DOMAIN argv}
  /\ logging' = setupLogging.val
  /\ Opened(loadConfig)
  /\ UNCHANGED << argv, earlier, stdin, inputData, logsDirOk, dirCreatable,
                  fileWritable, configFile, saves, calls, entered, op >>

\* a wizard that puts the default URL in place of every empty answer
AnswerServerUrl_fallback ==
  /\ pc = "promptUrl"
  /\ stdin # <<>>
  /\ config' = IF Head(stdin) # ""
               THEN SetField(config, "serverUrl", Str(Head(stdin)))
               ELSE SetField(config, "serverUrl", Str("http://localhost:3000"))
  /\ stdin' = Tail(stdin)
  /\ io' = Append(io, Ask("Server API Key: "))
  /\ pc' = "promptKey"
  /\ UNCHANGED << argv, earlier, inputData, exit, logging, logsDirOk,
                  configDir, dirCreatable, fileWritable, configFile, saves,
                  calls, entered, op >>

\* the answer to the Server URL prompt, up to the API key prompt
AnswerServerUrl ==
  /\ pc = "promptUrl"
  /\ stdin # <<>>
  /\ config' = IF Head(stdin) # ""
               THEN SetField(config, "serverUrl", Str(Head(stdin)))
               ELSE IF ~Truthy(Get(config, "serverUrl"))
                    THEN SetField(config, "serverUrl",
                                  Str("http://localhost:3000"))
                    ELSE config
  /\ stdin' = Tail(stdin)
  /\ io' = Append(io, Ask("Server API Key: "))
  /\ pc' = "promptKey"
  /\ UNCHANGED << argv, earlier, inputData, exit, logging, logsDirOk, configDir,
                  dirCreatable, fileWritable, configFile, saves, calls,
                  entered, op >>

\* saveConfig(cfg) and the statements up to the await of the probe
Saved(cfg) ==
  /\ config' = cfg
  /\ IF fileWritable
     THEN /\ configFile' = FileJSON(JSONstringify(cfg))
          /\ io' = io \o << Log("Configuration saved to <CONFIG_PATH>"),
                            Log(""), Log("Configuration saved to <CONFIG_PATH>"),
                            Log(""), Log("Verifying connection to server...") >>
     ELSE /\ configFile' = configFile
          /\ io' = io \o << Err("Error saving configuration:"),
                            Log(""), Log("Configuration saved to <CONFIG_PATH>"),
                            Log(""), Log("Verifying connection to server...") >>
  /\ saves' = saves + 1
  /\ calls' = Append(calls, Probe(cfg))

\* the answer to the API key prompt, saveConfig and the probe being issued
AnswerApiKey ==
  /\ pc = "promptKey"
  /\ stdin # <<>>
  /\ Saved(IF Head(stdin) # ""
           THEN SetField(config, "apiKey", Str(Head(stdin)))
           ELSE config)
  /\ stdin' = Tail(stdin)
  /\ pc' = "probing"
  /\ UNCHANGED << argv, earlier, inputData, exit, logging, logsDirOk, configDir,
                  dirCreatable, fileWritable, entered, op >>

\* the probe settles with outcome o; rl.close() and the process ends
ProbeSettle(o) ==
  /\ pc = "probing"
  /\ io' = io \o
           IF Resolves(o) /\ ~IsThrow(Get(o.data, "name"))
           THEN << Log("Connected to server"), Log("Server status"),
                   Log("Claude Desktop Integration:"), Ended("return", 0) >>
           ELSE << Err("Error connecting to server:"),
                   Err("Please ensure the server is running"),
                   Err("You can start it with: npx agentforce-reliable-server --direct"),
                   Ended("return", 0) >>
  /\ exit' = << 0 >>
  /\ pc' = "exited"
  /\ UNCHANGED << argv, earlier, stdin, inputData, logging, logsDirOk, configDir,
                  dirCreatable, fileWritable, configFile, config, saves,
                  calls, entered, op >>

\* the input closes while a prompt is waiting: the question is never
\* answered and the process ends when nothing is left to run
InputClosed ==
  /\ pc \in {"promptUrl", "promptKey"}
  /\ stdin = <<>>
  /\ exit' = << 0 >>
  /\ pc' = "exited"
  /\ io' = Append(io, Ended("return", 0))
  /\ UNCHANGED << argv, earlier, stdin, inputData, logging, logsDirOk, configDir,
                  dirCreatable, fileWritable, configFile, config, saves,
                  calls, entered, op >>

\* the documents written to standard output by process.stdout.write
Written(out) ==
  [i \in DOMAIN SelectSeq(out, LAMBDA e : e.via = "process.stdout.write") |->
     SelectSeq(out, LAMBDA e : e.via = "process.stdout.write")[i].doc]

\* The client is invoked again with the same input: a new process, which
\* starts from what the previous one left on disk and from nothing else.
Reinvoke ==
  /\ pc = "exited"
  /\ "configure" \notin {argv[i] : i \in DOMAIN argv}
  /\ ~earlier.done
  /\ earlier' = [done |-> TRUE, calls |-> calls, docs |-> Written(io),
                 exit |-> exit, outcome |-> op.outcome]
  /\ pc' = "start"
  /\ stdin' = IF inputData = "" THEN <<>> ELSE << inputData >>
  /\ inputData' = ""
  /\ io' = <<>>
  /\ exit' = <<>>
  /\ logging' = FALSE
  /\ calls' = <<>>
  /\ entered' = <<>>
  /\ op' = NoOp
  /\ UNCHANGED << argv, logsDirOk, configDir, dirCreatable, fileWritable,
                  configFile, config, saves >>

Next ==
  \/ Main
  \/ OnData
  \/ OnEnd
  \/ \E o \in Outcomes : Settle(o)
  \/ Configure
  \/ AnswerServerUrl
  \/ AnswerApiKey
  \/ \E o \in Outcomes : ProbeSettle(o)
  \/ InputClosed
  \/ Reinvoke

Spec == Init /\ [][Next]_vars

\* The same program under the scheduling Node gives it: main() runs, the
\* event loop delivers every pending 'data' and 'end' event, and the
\* outbound call in flight settles (axios resolves, rejects or times out).
LiveSpec ==
  /\ Spec
  /\ WF_vars(Main)
  /\ WF_vars(OnData)
  /\ WF_vars(OnEnd)
  /\ WF_vars(\E o \in Outcomes : Settle(o))

(***************************************************************************)
(* Properties.                                                             *)
(***************************************************************************)
RequestMode == "configure" \notin {argv[i] : i \in DOMAIN argv}
IsEnvelopeWrite(e) == e.via = "process.stdout.write"
IsExit(e) == e.ch = "exit"
Envelopes == SelectSeq(io, IsEnvelopeWrite)
Exits == SelectSeq(io, IsExit)
Posts == SelectSeq(calls, LAMBDA c : c.method = "POST")

HasError(r) == r.t = "object" /\ "error" \in DOMAIN r.f
ResultOf(doc) == IF "result" \in DOMAIN doc.f THEN doc.f.result ELSE Undefined
ErrorCode(doc) == IF HasError(ResultOf(doc))
                  THEN ResultOf(doc).f.error.f.code ELSE Undefined

IsTextEntry(e) ==
  /\ e.t = "object"
  /\ DOMAIN e.f = {"type", "text"}
  /\ e.f.type = Str("text")
  /\ e.f.text.t = "string"

IsErrorObject(e) ==
  /\ e.t = "object"
  /\ DOMAIN e.f = {"code", "message"}
  /\ e.f.code.t = "string"
  /\ e.f.message.t = "string"

\* the Response Envelope shape
ValidEnvelope(doc) ==
  /\ doc.t = "object"
  /\ "result" \in DOMAIN doc.f
  /\ doc.f.result.t = "object"
  /\ "content" \in DOMAIN doc.f.result.f
  /\ doc.f.result.f.content.t = "array"
  /\ Len(doc.f.result.f.content.e) = 1
  /\ IsTextEntry(doc.f.result.f.content.e[1])
  /\ HasError(doc.f.result) => IsErrorObject(doc.f.result.f.error)

Is2xx(o) == o.kind = "response" /\ o.status \in 200 .. 299
CarriesResult(o) == o.data.t = "object" /\ "result" \in DOMAIN o.data.f

\* the request text names a known operation with tool, name and args present
WellFormedKnown(text) ==
  LET r == JSONparse(text) IN
    /\ ~IsThrow(r)
    /\ r.t = "object"
    /\ "tool" \in DOMAIN r.f
    /\ r.f.tool.t = "object"
    /\ {"name", "args"} \subseteq DOMAIN r.f.tool.f
    /\ r.f.tool.f.name.t = "string"
    /\ r.f.tool.f.name.s \in Registry
    /\ r.f.tool.f.args.t = "object"

\* the request text is empty, unparseable, lacks tool, tool.name or
\* tool.args, or names an operation outside the registry
Rejected(text) ==
  LET r == JSONparse(text) IN
    \/ IsBlank(text)
    \/ IsThrow(r)
    \/ r.t # "object"
    \/ "tool" \notin DOMAIN r.f
    \/ r.f.tool.t # "object"
    \/ "name" \notin DOMAIN r.f.tool.f
    \/ "args" \notin DOMAIN r.f.tool.f
    \/ r.f.tool.f.name.t # "string"
    \/ r.f.tool.f.name.s \notin Registry

\* C1: in request mode, after a known operation was dispatched and has
\* returned, the process exits with code 0 if and only if the operation's
\* result carries no error field.
C1_ExitCodeReflectsError ==
  (RequestMode /\ pc = "exited" /\ op.state \in {"succeeded", "failed"}) =>
    (exit = << 0 >> <=> ~HasError(op.result))

\* C2: in request mode everything written to standard output is the
\* Response Envelope write; no console message goes to standard output.
C2_StdoutCarriesOnlyTheEnvelope ==
  RequestMode =>
    \A i \in DOMAIN io : io[i].ch = "stdout" => IsEnvelopeWrite(io[i])

\* C3: in request mode at most one Response Envelope is ever written, the
\* process exits once, the exit is the last thing the process does (so the
\* envelope write precedes it and nothing follows it), and an invocation
\* that has exited on input that is not blank has written exactly one.
C3_ExactlyOneTerminalPath ==
  RequestMode =>
    /\ Len(Envelopes) <= 1
    /\ Len(Exits) = (IF pc = "exited" THEN 1 ELSE 0)
    /\ pc = "exited" => IsExit(io[Len(io)])
    /\ (pc = "exited" /\ ~IsBlank(inputData)) => Len(Envelopes) = 1

C3_Witness ==
  /\ RequestMode
  /\ pc = "exited"
  /\ ~IsBlank(inputData)
  /\ op.state = "threw"
  /\ Len(Envelopes) = 1
  /\ ErrorCode(Envelopes[1].doc) = Str("processing_error")

\* C4: for a well-formed envelope naming a known operation (here with a
\* stored profile that loads), whatever its args hold, exactly one outbound
\* call is issued and the output is a single valid Response Envelope.
C4_OneCallOneEnvelope ==
  (/\ RequestMode
   /\ pc = "exited"
   /\ WellFormedKnown(inputData)
   /\ configFile = FileJSON(StoredProfile)) =>
    /\ Len(calls) = 1
    /\ Len(Envelopes) = 1
    /\ ValidEnvelope(Envelopes[1].doc)

\* C5: an operation function that was entered never lets an exception
\* leave it, and no processing_error envelope follows an entered operation.
C5_OperationsNeverRaise ==
  (RequestMode /\ entered # <<>>) =>
    /\ op.state # "threw"
    /\ \A i \in DOMAIN Envelopes :
         ErrorCode(Envelopes[i].doc) # Str("processing_error")

C6_Label(name) ==
  CASE name = "agentforce_authenticate" -> "Authentication"
    [] name = "agentforce_create_session" -> "Session creation"
    [] name = "agentforce_send_message" -> "Message sending"
    [] name = "agentforce_get_status" -> "Status check"
    [] name = "agentforce_reset" -> "Reset"

C6_Code(name) ==
  CASE name = "agentforce_authenticate" -> "authentication_error"
    [] name = "agentforce_create_session" -> "session_creation_error"
    [] name = "agentforce_send_message" -> "message_sending_error"
    [] name = "agentforce_get_status" -> "status_check_error"
    [] name = "agentforce_reset" -> "reset_error"

C6_Expected(name, m) ==
  Obj([content |-> Arr(<< Obj([type |-> Str("text"),
                               text |-> Str(C6_Label(name) \o " failed: "
                                            \o m)]) >>),
       error |-> Obj([code |-> Str(C6_Code(name)), message |-> Str(m)])])

\* C6: when the outbound call of an operation fails (connection failure,
\* timeout, non-2xx response) with message m, the operation returns exactly
\* one text entry "<label> failed: <m>" and error { code, message: m }
\* with the operation's own label and code.
C6_NormalizedFailure ==
  (RequestMode /\ op.outcome.kind # "none" /\ ~Is2xx(op.outcome)) =>
    op.result = C6_Expected(op.name, AxiosMessage(op.name, op.outcome))

C6_Witness ==
  /\ RequestMode
  /\ op.name = "agentforce_send_message"
  /\ op.outcome.kind = "timeout"
  /\ op.state = "failed"
  /\ op.result.f.error.f.message = Str("timeout of 300000ms exceeded")

\* C7: when the backend answers 2xx with a body carrying a result r, the
\* operation returns r unchanged, the process writes { result: r } and,
\* when r has no error field, exits 0.
C7_ResultPassedThrough ==
  (/\ RequestMode
   /\ pc = "exited"
   /\ Is2xx(op.outcome)
   /\ CarriesResult(op.outcome)) =>
    /\ op.result = op.outcome.data.f.result
    /\ Len(Envelopes) = 1
    /\ Envelopes[1].doc = Obj([result |-> op.outcome.data.f.result])
    /\ ~HasError(op.outcome.data.f.result) => exit = << 0 >>

\* the 2xx answer is not a result with one text content entry
Malformed(o) ==
  /\ Is2xx(o)
  /\ ~(CarriesResult(o) /\ ValidEnvelope(Obj([result |-> o.data.f.result])))

\* the operation failed: it was rejected or did not succeed, or the backend
\* answered with an error or with a malformed body
OperationFailed ==
  \/ op.state # "succeeded"
  \/ Malformed(op.outcome)
  \/ (CarriesResult(op.outcome) /\ HasError(op.outcome.data.f.result))

\* C8: every Response Envelope written has a result with exactly one text
\* content entry, and an error object if and only if the operation failed.
C8_EnvelopeInvariant ==
  RequestMode =>
    \A i \in DOMAIN Envelopes :
      /\ ValidEnvelope(Envelopes[i].doc)
      /\ HasError(ResultOf(Envelopes[i].doc)) <=> OperationFailed

\* C9: in request mode at most one outbound POST is ever issued by an
\* invocation; an operation leaves pending only for succeeded or failed,
\* and once it has settled nothing more happens to it and no further call
\* is issued by that invocation.
C9_AtMostOneCall ==
  /\ [](RequestMode => Len(Posts) <= 1)
  /\ [][ /\ op.state = "pending" => op'.state \in {"succeeded", "failed"}
         /\ (op.state \in {"succeeded", "failed"} /\ earlier' = earlier) =>
              (op' = op /\ calls' = calls) ]_vars

C9_Witness ==
  /\ RequestMode
  /\ pc = "exited"
  /\ Len(Posts) = 1
  /\ op.state = "failed"
  /\ op.outcome.kind = "refused"

\* C10: a request that is empty, unparseable, lacks tool, tool.name or
\* tool.args, or names an operation outside the registry ends without an
\* outbound call, without an operation function entered, and with a
\* non-zero exit code.
C10_RejectedBeforeDispatch ==
  (RequestMode /\ Rejected(inputData)) =>
    /\ calls = <<>>
    /\ entered = <<>>
    /\ pc # "awaiting"
    /\ pc = "exited" => exit = << 1 >>

C10_Witness ==
  /\ RequestMode
  /\ pc = "exited"
  /\ exit = << 1 >>
  /\ Rejected(inputData)
  /\ ~IsBlank(inputData)
  /\ ~IsThrow(JSONparse(inputData))
  /\ Len(Envelopes) = 1

ErrorMessage(doc) == IF HasError(ResultOf(doc))
                     THEN ResultOf(doc).f.error.f.message ELSE Undefined

\* the five operation names of the registry, as the interface lists them
OperationNames ==
  { "agentforce_authenticate", "agentforce_create_session",
    "agentforce_send_message", "agentforce_get_status", "agentforce_reset" }

\* the request text parses to an object whose tool member is present
HasTool(text) ==
  LET r == JSONparse(text) IN
    /\ ~IsThrow(r)
    /\ r.t = "object"
    /\ "tool" \in DOMAIN r.f
    /\ r.f.tool.t \in {"object", "string"}

\* tool is present and tool.args is absent (no such member, or null)
ArgsAbsent(text) ==
  LET r == JSONparse(text) IN
    /\ HasTool(text)
    /\ \/ r.f.tool.t # "object"
       \/ "args" \notin DOMAIN r.f.tool.f
       \/ r.f.tool.f.args = Null

\* tool is present and tool.args is the empty mapping
ArgsEmptyMapping(text) ==
  LET r == JSONparse(text) IN
    /\ HasTool(text)
    /\ r.f.tool.t = "object"
    /\ "args" \in DOMAIN r.f.tool.f
    /\ r.f.tool.f.args = Obj(EmptyMap)

\* C11: a request whose tool is present but whose tool.args is absent ends
\* with the envelope error invalid_request / "Missing args field" and a
\* non-zero exit code, whatever the operation name (known or unknown: the
\* args check comes before the name check); an args value {} is present
\* and never draws that error.
C11_MissingArgsRejected ==
  /\ (RequestMode /\ pc = "exited" /\ ArgsAbsent(inputData)) =>
       /\ Len(Envelopes) = 1
       /\ ErrorCode(Envelopes[1].doc) = Str("invalid_request")
       /\ ErrorMessage(Envelopes[1].doc) = Str("Missing args field")
       /\ exit = << 1 >>
       /\ entered = <<>>
  /\ (RequestMode /\ ArgsEmptyMapping(inputData)) =>
       \A i \in DOMAIN Envelopes :
         ErrorMessage(Envelopes[i].doc) # Str("Missing args field")

C11_Witness ==
  /\ RequestMode
  /\ pc = "exited"
  /\ ArgsAbsent(inputData)
  /\ JSONparse(inputData).f.tool.t = "object"
  /\ JSONparse(inputData).f.tool.f.name = Str("bogus_tool")
  /\ Len(Envelopes) = 1
  /\ ErrorMessage(Envelopes[1].doc) = Str("Missing args field")

\* tool and tool.args are present and tool.name is not, letter for letter,
\* one of the five operation names
UnknownName(text) ==
  LET r == JSONparse(text) IN
    /\ HasTool(text)
    /\ r.f.tool.t = "object"
    /\ "args" \in DOMAIN r.f.tool.f
    /\ r.f.tool.f.args.t = "object"
    /\ \/ "name" \notin DOMAIN r.f.tool.f
       \/ r.f.tool.f.name.t # "string"
       \/ r.f.tool.f.name.s \notin OperationNames

\* the name as the message shows it
OffendingName(text) ==
  LET t == JSONparse(text).f.tool.f IN
    IF "name" \in DOMAIN t /\ t.name.t = "string" THEN t.name.s
    ELSE "undefined"

\* C12: a request with tool and tool.args present whose tool.name is not
\* exactly (case-sensitively) one of the five operation names ends with the
\* envelope error unknown_tool / "Unknown tool: <name>", a non-zero exit
\* code and no operation run.
C12_UnknownToolRejected ==
  (RequestMode /\ pc # "reading" /\ pc # "start" /\ UnknownName(inputData)) =>
    /\ pc = "exited"
    /\ Len(Envelopes) = 1
    /\ ErrorCode(Envelopes[1].doc) = Str("unknown_tool")
    /\ ErrorMessage(Envelopes[1].doc) =
         Str("Unknown tool: " \o OffendingName(inputData))
    /\ exit = << 1 >>
    /\ entered = <<>>
    /\ calls = <<>>

C12_Witness ==
  /\ RequestMode
  /\ pc = "exited"
  /\ UnknownName(inputData)
  /\ OffendingName(inputData) = "AGENTFORCE_RESET"
  /\ ErrorMessage(Envelopes[1].doc) = Str("Unknown tool: AGENTFORCE_RESET")

\* C13: buffered input that is not empty (nor white space only) and that
\* JSON.parse rejects ends with one envelope whose error is parse_error
\* with the parser's message, and with a non-zero exit code.
C13_ParseErrorReported ==
  (/\ RequestMode
   /\ pc = "exited"
   /\ inputData \notin Blank
   /\ IsThrow(JSONparse(inputData))) =>
    /\ Len(Envelopes) = 1
    /\ ErrorCode(Envelopes[1].doc) = Str("parse_error")
    /\ ErrorMessage(Envelopes[1].doc) = Str(JSONparse(inputData).s)
    /\ exit = << 1 >>
    /\ entered = <<>>

C13_Witness ==
  /\ RequestMode
  /\ pc = "exited"
  /\ inputData = "abc"
  /\ Len(Envelopes) = 1
  /\ ErrorCode(Envelopes[1].doc) = Str("parse_error")
  /\ ErrorMessage(Envelopes[1].doc) =
       Str("Unexpected token a in JSON at position 0")

\* the text parses, and the parsed value has no tool member: it is null, a
\* value that is no object, or an object without one
NoToolField(text) ==
  LET r == JSONparse(text) IN
    /\ ~IsThrow(r)
    /\ r.t = "object" => "tool" \notin DOMAIN r.f

\* C14: a request that parses to a value without a tool field (null and
\* non-object values included) ends with the envelope error
\* invalid_request / "Missing tool field" and a non-zero exit code.
C14_MissingToolRejected ==
  (RequestMode /\ pc = "exited" /\ NoToolField(inputData)) =>
    /\ Len(Envelopes) = 1
    /\ ErrorCode(Envelopes[1].doc) = Str("invalid_request")
    /\ ErrorMessage(Envelopes[1].doc) = Str("Missing tool field")
    /\ exit = << 1 >>
    /\ entered = <<>>

C14_Witness ==
  /\ RequestMode
  /\ pc = "exited"
  /\ JSONparse(inputData) = Null
  /\ Len(Envelopes) = 1
  /\ ErrorMessage(Envelopes[1].doc) = Str("Missing tool field")
  /\ exit = << 1 >>

\* C15: when the buffered input is empty or white space only the process
\* exits with code 1, writes no envelope or an invalid_request one, and
\* neither parses (no "Received input" line, no parse_error) nor dispatches.
C15_BlankInputRejected ==
  (RequestMode /\ pc \notin {"start", "reading"} /\ inputData \in Blank) =>
    /\ pc = "exited"
    /\ exit = << 1 >>
    /\ \/ Envelopes = <<>>
       \/ /\ Len(Envelopes) = 1
          /\ ErrorCode(Envelopes[1].doc) = Str("invalid_request")
    /\ \A i \in DOMAIN io :
         io[i].text # "Received input: " \o Dec(Len(inputData)) \o " characters"
    /\ entered = <<>>
    /\ calls = <<>>

C15_Witness ==
  /\ RequestMode
  /\ pc = "exited"
  /\ inputData = " \n"
  /\ exit = << 1 >>
  /\ Envelopes = <<>>

\* C16: an exception that leaves an operation function (the only exception
\* request handling can raise outside its explicit checks) is caught by
\* the 'end' handler: one envelope with error processing_error and the
\* exception's message, then a non-zero exit; the process never ends
\* otherwise than by process.exit.
C16_ExceptionsCaught ==
  RequestMode =>
    /\ op.state = "threw" =>
         /\ pc = "exited"
         /\ IsThrow(op.result)
         /\ Len(Envelopes) = 1
         /\ Envelopes[1].doc =
              Obj([result |->
                Obj([content |-> Arr(<< Obj([type |-> Str("text"),
                                             text |-> Str("Error: "
                                                          \o op.result.s)]) >>),
                     error |-> Obj([code |-> Str("processing_error"),
                                    message |-> Str(op.result.s)])])])
         /\ exit = << 1 >>
    /\ \A i \in DOMAIN Exits : Exits[i].via = "process.exit"
    /\ (pc = "exited" /\ inputData \notin Blank) => Len(Envelopes) = 1

C16_Witness ==
  /\ RequestMode
  /\ pc = "exited"
  /\ op.name = "agentforce_authenticate"
  /\ op.state = "threw"
  /\ ErrorMessage(Envelopes[1].doc) =
       Str("Cannot read properties of undefined (reading 'agentId')")

\* the profile loadConfig hands to the operation
LoadedProfile ==
  IF configFile.t = "json" THEN configFile.v
  ELSE Obj([serverUrl |-> Str("http://localhost:3000"), apiKey |-> Str(""),
            clientId |-> Str("client-<now>")])

\* the per-operation timeouts, in milliseconds
TimeoutOf(name) ==
  CASE name = "agentforce_authenticate" -> 30000
    [] name = "agentforce_create_session" -> 60000
    [] name = "agentforce_send_message" -> 300000
    [] name = "agentforce_get_status" -> 10000
    [] name = "agentforce_reset" -> 10000

\* the call c is the one the request text and the loaded profile determine
CallMatches(c, tool, profile) ==
  /\ c.method = "POST"
  /\ c.url = ToText(Get(profile, "serverUrl")) \o "/mcp/call-tool"
  /\ c.body = Obj([tool |-> Obj([name |-> tool.name, args |-> tool.args])])
  /\ c.apiKey = Get(profile, "apiKey")
  /\ c.timeout = TimeoutOf(tool.name.s)

C18_EventuallyExits ==
  /\ (RequestMode /\ pc = "reading" /\ stdin = <<>>) ~> (pc = "exited")
  /\ [](pc = "exited" => exit # <<>>)
  /\ []((/\ RequestMode
         /\ pc = "exited"
         /\ (inputData \in Blank \/ IsThrow(JSONparse(inputData)))) =>
          exit = << 1 >>)

C18_Witness ==
  /\ RequestMode
  /\ pc = "exited"
  /\ op.name = "agentforce_reset"
  /\ op.outcome.kind = "timeout"
  /\ exit = << 0 >>

\* nothing of the request has been handled yet
Quiet ==
  /\ calls = <<>>
  /\ entered = <<>>
  /\ op = NoOp
  /\ Envelopes = <<>>
  /\ Exits = <<>>
  /\ exit = <<>>
  /\ \A i \in DOMAIN io :
       io[i].text \in {"Logging initialized to <LOG_PATH>",
                       "Error setting up logging:"}

C20_ProfileReadOnly ==
  RequestMode =>
    /\ saves = 0
    /\ config = Undefined
    /\ (/\ op.state \notin {"none", "threw"}
        /\ configFile.t \in {"absent", "garbage", "unreadable"}) =>
         /\ Len(calls) = 1
         /\ calls[1].url = "http://localhost:3000/mcp/call-tool"
         /\ calls[1].apiKey = Str("")

\* the backend answered with a result of the envelope's shape, no error
Successful(o) ==
  /\ Is2xx(o)
  /\ CarriesResult(o)
  /\ ValidEnvelope(Obj([result |-> o.data.f.result]))
  /\ ~HasError(o.data.f.result)

\* this is the second of two invocations and both have exited
BothExited == RequestMode /\ earlier.done /\ pc = "exited"

\* C21: two invocations with the identical agentforce_get_status envelope
\* and the same stored profile each issue one outbound call of their own;
\* when the backend answers both successfully each writes one envelope of
\* the Response Envelope shape without error and exits with the same code.
\* For every input, an invocation that gets the same answer as the previous
\* one issues the same call, writes the same envelope and exits alike:
\* nothing the previous invocation left behind changes it.
C21_RepeatedInvocationsIndependent ==
  /\ (/\ BothExited
      /\ JSONparse(inputData) = Request("agentforce_get_status", ArgsC1)
      /\ configFile = FileJSON(StoredProfile)) =>
       /\ Len(earlier.calls) = 1
       /\ Len(calls) = 1
       /\ (Successful(earlier.outcome) /\ Successful(op.outcome)) =>
            /\ Len(earlier.docs) = 1
            /\ Len(Envelopes) = 1
            /\ ValidEnvelope(earlier.docs[1])
            /\ ValidEnvelope(Envelopes[1].doc)
            /\ ~HasError(ResultOf(earlier.docs[1]))
            /\ ~HasError(ResultOf(Envelopes[1].doc))
            /\ earlier.exit = << 0 >>
            /\ exit = << 0 >>
  /\ (BothExited /\ earlier.outcome = op.outcome) =>
       /\ earlier.calls = calls
       /\ earlier.docs = Written(io)
       /\ earlier.exit = exit

C21_Witness ==
  /\ BothExited
  /\ JSONparse(inputData) = Request("agentforce_get_status", ArgsC1)
  /\ configFile = FileJSON(StoredProfile)
  /\ Successful(earlier.outcome)
  /\ Successful(op.outcome)
  /\ earlier.outcome # op.outcome
  /\ Len(calls) = 1
  /\ Len(earlier.calls) = 1
  /\ earlier.docs[1] # Envelopes[1].doc

ConfigureMode == "configure" \in {argv[i] : i \in DOMAIN argv}
Gets == SelectSeq(calls, LAMBDA c : c.method = "GET")
Prompts == SelectSeq(io, LAMBDA e : e.via = "rl.question")

\* C22: a process whose arguments include 'configure' processes no stdin
\* request, issues no POST and writes no Response Envelope; a process
\* whose arguments do not include it issues no GET probe, asks no prompt
\* and does not save the profile.
C22_ModesExclusive ==
  /\ ConfigureMode =>
       /\ pc \notin {"reading", "awaiting"}
       /\ inputData = ""
       /\ entered = <<>>
       /\ op = NoOp
       /\ Posts = <<>>
       /\ Envelopes = <<>>
  /\ ~ConfigureMode =>
       /\ pc \notin {"promptUrl", "promptKey", "probing"}
       /\ Gets = <<>>
       /\ Prompts = <<>>
       /\ saves = 0
       /\ config = Undefined

C22_Witness ==
  /\ argv = << "-v", "configure" >>
  /\ pc = "exited"
  /\ Len(Gets) = 1
  /\ Len(Prompts) = 2
  /\ saves = 1
  /\ Posts = <<>>
  /\ Envelopes = <<>>

\* the value of field k after the prompt was answered with a
AfterAnswer(before, k, a) ==
  IF a # "" THEN Str(a) ELSE Get(before, k)

\* C23: in the wizard the profile is saved once, in the step that follows
\* the second answer and issues the probe (never before, never again); an
\* empty answer keeps the loaded value of its field (serverUrl becoming
\* 'http://localhost:3000' only when none was loaded), clientId never
\* changes, and the settlement of the probe, failed or not, leaves the
\* stored profile and the number of saves as they are.
C23_SavedOnceBeforeProbe ==
  /\ [](ConfigureMode =>
          /\ saves <= 1
          /\ Len(Gets) <= 1
          /\ saves = 1 <=> Gets # <<>>
          /\ pc \in {"start", "promptUrl", "promptKey"} => saves = 0
          /\ pc = "probing" => (saves = 1 /\ Len(Prompts) = 2)
          /\ pc = "promptUrl" => config = LoadedProfile)
  /\ [][ConfigureMode =>
          /\ (pc = "promptUrl" /\ pc' = "promptKey") =>
               /\ Get(config', "serverUrl") =
                    IF Head(stdin) = "" /\ ~Truthy(Get(config, "serverUrl"))
                    THEN Str("http://localhost:3000")
                    ELSE AfterAnswer(config, "serverUrl", Head(stdin))
               /\ Get(config', "apiKey") = Get(config, "apiKey")
               /\ Get(config', "clientId") = Get(config, "clientId")
               /\ saves' = saves
               /\ configFile' = configFile
               /\ calls' = calls
          /\ (pc = "promptKey" /\ pc' = "probing") =>
               /\ Get(config', "apiKey") =
                    AfterAnswer(config, "apiKey", Head(stdin))
               /\ Get(config', "serverUrl") = Get(config, "serverUrl")
               /\ Get(config', "clientId") = Get(config, "clientId")
               /\ saves' = saves + 1
               /\ fileWritable => configFile' = FileJSON(config')
               /\ ~fileWritable => configFile' = configFile
               /\ Len(Gets') = 1
               /\ Gets'[1].url = Get(config', "serverUrl").s
          /\ pc = "probing" =>
               /\ configFile' = configFile
               /\ saves' = saves
               /\ config' = config
               /\ calls' = calls ]_vars

C23_Witness ==
  /\ ConfigureMode
  /\ pc = "exited"
  /\ saves = 1
  /\ Len(Gets) = 1
  /\ \E i \in DOMAIN io : io[i].text = "Error connecting to server:"
  /\ configFile = FileJSON(Obj([serverUrl |-> Str("http://srv:3000"),
                                apiKey |-> Str("k2"),
                                clientId |-> Str("client-1")]))

====
